---------------------------- MODULE Spec2Model ----------------------------
(***************************************************************************)
(* n8n workflow popularity tracker: the engagement scorer and the          *)
(* save_workflow upsert of src/scheduler.py and src/app.py, both writing   *)
(* the same MongoDB collection `workflows`, fed with the records the three *)
(* collectors of src/collectors/ emit.                                     *)
(*                                                                         *)
(* Conventions of the model                                                *)
(*  - a Python dict / MongoDB document is a function from field names to   *)
(*    values; an absent key is a name outside its DOMAIN;                  *)
(*  - a document's _id is its position in the sequence `workflows`         *)
(*    (documents are only ever appended or updated in place);              *)
(*  - a float is a fixed-point integer: scores and ratios count in units   *)
(*    of 1/10000, trend_change (rounded to one decimal by the collector)   *)
(*    counts in tenths;                                                    *)
(*  - a string that the code builds by concatenation or cuts by slicing is *)
(*    a sequence of tokens;                                                *)
(*  - a point in time is [kind, t]: kind "datetime" for datetime.now(utc), *)
(*    kind "isostr" for the text datetime.now().isoformat().               *)
(***************************************************************************)
EXTENDS Integers, Sequences, FiniteSets, TLC

VARIABLES
    workflows,   \* the collection db.workflows, in insertion order
    clock,       \* the wall clock read by datetime.now()
    calls,       \* number of save_workflow calls made so far
    last,        \* the last save_workflow call: who, its argument, what it did
    scoreIn,     \* argument of the last direct calculate_engagement_score call
    scoreOut,    \* what the two calculate_engagement_score functions returned
    dedup,       \* a collector's collect_workflows: items collected, list returned
    procs,       \* save_workflow executions in progress, one per process
    batch,       \* a 'for wf in workflows: save_workflow(wf)' loop in progress
    response,    \* the last GET /api/workflows request and its response
    history,     \* the collection db.collection_history, in insertion order
    run          \* the last collection run: what was asked, what the collectors did

vars == <<workflows, clock, calls, last, scoreIn, scoreOut,
          dedup, procs, batch, response, history, run>>

\* the variables a specification that does not use them leaves alone
dedupVars == <<dedup>>
procVars == <<procs>>
batchVars == <<batch>>
queryVars == <<response>>
collectVars == <<history, run>>
saveVars == <<calls, last>>
scoreVars == <<scoreIn, scoreOut>>

---------------------------------------------------------------------------
(* Bounds *)

MaxCount == 1       \* metric counters range over 0..MaxCount
MaxClock == 1       \* the clock ranges over 0..MaxClock
MaxCalls == 3       \* save_workflow calls in one behaviour
MaxDocs == 2        \* documents the collection may hold

---------------------------------------------------------------------------
(* dict helpers *)

Get(d, k, dflt) == IF k \in DOMAIN d THEN d[k] ELSE dflt

Put(d, k, v) == [x \in (DOMAIN d) \cup {k} |-> IF x = k THEN v ELSE d[x]]

SetFields(doc, upd) ==
    [x \in (DOMAIN doc) \cup (DOMAIN upd) |->
        IF x \in DOMAIN upd THEN upd[x] ELSE doc[x]]

Max0(x) == IF x > 0 THEN x ELSE 0

Ratio(a, b) == IF b > 0 THEN (a * 10000) \div b ELSE 0

Slice200(s) == IF Len(s) > 200 THEN SubSeq(s, 1, 200) ELSE s

utcnow(t) == [kind |-> "datetime", t |-> t]

isoformat(t) == [kind |-> "isostr", t |-> t]

---------------------------------------------------------------------------
(* The collectors' output records *)

Counts == 0 .. MaxCount

TrendChanges == (0 - MaxCount) .. MaxCount

Countries == {"US", "IN"}

VideoTitles == {<<"a">>}

VideoIds == {"v1"}

PostTitles == {<<"a", "!">>}

PostUrls == {<<"https://community.n8n.io/t/", "p1">>}

Keywords == {<<"n8n automation">>}

IsWordChar(c) == c # "!"

youtube_workflow(title, country, views, likes, comments, vid) ==
    [workflow_name |-> Slice200(title),
     platform |-> "YouTube",
     country |-> country,
     views |-> views,
     likes |-> likes,
     comments |-> comments,
     like_to_view_ratio |-> Ratio(likes, views),
     comment_to_view_ratio |-> Ratio(comments, views),
     source_url |-> <<"https://www.youtube.com/watch?v=", vid>>]

extract_workflow_info(post, now) ==
    [workflow_name |-> Slice200(SelectSeq(Get(post, "title", <<>>), IsWordChar)),
     platform |-> "Forum",
     country |-> "Global",
     views |-> Get(post, "views", 0),
     replies |-> Get(post, "replies", 0),
     likes |-> Get(post, "likes", 0),
     contributors |-> Get(post, "contributors", 1),
     reply_to_view_ratio |-> Ratio(Get(post, "replies", 0), Get(post, "views", 0)),
     like_to_view_ratio |-> Ratio(Get(post, "likes", 0), Get(post, "views", 0)),
     source_url |-> Get(post, "url", <<>>),
     created_at |-> Get(post, "created_at", isoformat(now))]

country_codes(country) ==
    IF country \in {"US", "GB", "DE", "FR", "CA", "AU", "IN", "BR", "JP"} THEN country
    ELSE IF country = "Global" THEN ""
    ELSE "US"

create_workflow_from_trend(trends_data) ==
    [workflow_name |-> trends_data.keyword \o <<" automation workflow">>,
     platform |-> "Google Trends",
     country |-> trends_data.country,
     trend_score |-> trends_data.trend_score,
     search_volume |-> Get(trends_data, "search_volume", trends_data.trend_score * 1000),
     trend_change |-> Get(trends_data, "trend_change", 0),
     related_queries |-> trends_data.related_queries,
     popularity_index |-> trends_data.trend_score,
     source_url |-> <<"https://trends.google.com/trends/explore?q=">>
                      \o trends_data.keyword
                      \o <<"&geo=", country_codes(trends_data.country)>>,
     timestamp |-> trends_data.timestamp]

YouTubeRecords ==
    { youtube_workflow(title, country, views, likes, comments, vid) :
        title \in VideoTitles, country \in Countries, views \in Counts,
        likes \in Counts, comments \in Counts, vid \in VideoIds }

get_recent_posts(now) ==
    { [title |-> title, views |-> views, replies |-> replies, likes |-> likes,
       contributors |-> contributors, url |-> url, category |-> "workflows",
       timestamp |-> isoformat(now)] :
        title \in PostTitles, views \in Counts, replies \in Counts,
        likes \in Counts, contributors \in Counts, url \in PostUrls }

ForumRecords(now) == { extract_workflow_info(post, now) : post \in get_recent_posts(now) }

get_trends_data(now) ==
    { [keyword |-> keyword, country |-> country, trend_score |-> trend_score,
       trend_change |-> trend_change, search_volume |-> search_volume,
       related_queries |-> <<keyword \o <<" tutorial">>>>,
       timestamp |-> isoformat(now)] :
        keyword \in Keywords, country \in Countries, trend_score \in Counts,
        trend_change \in TrendChanges, search_volume \in Counts }

GoogleRecords(now) == { create_workflow_from_trend(td) : td \in get_trends_data(now) }

AdapterRecords(now) == YouTubeRecords \cup ForumRecords(now) \cup GoogleRecords(now)

---------------------------------------------------------------------------
(* calculate_engagement_score, src/scheduler.py and src/app.py *)

\* variant: the video formula without the views > 0 test
scheduler_score_ungated(workflow) ==
    LET platform == Get(workflow, "platform", "") IN
    IF platform = "YouTube" THEN
        (Get(workflow, "views", 0) * 1) + (Get(workflow, "likes", 0) * 4000)
            + (Get(workflow, "comments", 0) * 2000)
    ELSE IF platform = "Forum" THEN
        (Get(workflow, "replies", 0) * 400000) + (Get(workflow, "likes", 0) * 300000)
            + (Get(workflow, "contributors", 0) * 200000) + (Get(workflow, "views", 0) * 100)
    ELSE IF platform = "Google" THEN
        (Get(workflow, "search_volume", 0) * 7000)
            + (Max0(Get(workflow, "trend_change", 0)) * 300000)
    ELSE 0

scheduler_calculate_engagement_score(workflow) ==
    LET platform == Get(workflow, "platform", "") IN
    IF platform = "YouTube" THEN
        LET views == Get(workflow, "views", 0)
            likes == Get(workflow, "likes", 0)
            comments == Get(workflow, "comments", 0)
        IN  IF views > 0 THEN (views * 1) + (likes * 4000) + (comments * 2000)
            ELSE 0
    ELSE IF platform = "Forum" THEN
        LET views == Get(workflow, "views", 0)
            replies == Get(workflow, "replies", 0)
            likes == Get(workflow, "likes", 0)
            contributors == Get(workflow, "contributors", 0)
        IN  (replies * 400000) + (likes * 300000) + (contributors * 200000) + (views * 100)
    ELSE IF platform = "Google" THEN
        LET search_volume == Get(workflow, "search_volume", 0)
            trend_change == Get(workflow, "trend_change", 0)
        IN  (search_volume * 7000) + (Max0(trend_change) * 300000)
    ELSE 0

\* variant: the forum formula behind the video formula's views > 0 test
app_score_forum_gated(workflow) ==
    LET platform == Get(workflow, "platform", "") IN
    IF platform = "YouTube" THEN
        IF Get(workflow, "views", 0) > 0
        THEN (Get(workflow, "views", 0) * 1) + (Get(workflow, "likes", 0) * 4000)
                + (Get(workflow, "comments", 0) * 2000)
        ELSE 0
    ELSE IF platform = "Forum" THEN
        IF Get(workflow, "views", 0) > 0
        THEN (Get(workflow, "replies", 0) * 400000) + (Get(workflow, "likes", 0) * 300000)
                + (Get(workflow, "contributors", 0) * 200000) + (Get(workflow, "views", 0) * 100)
        ELSE 0
    ELSE IF platform = "Google Trends" THEN
        (Get(workflow, "search_volume", 0) * 7000)
            + (Max0(Get(workflow, "trend_change", 0)) * 300000)
    ELSE 0

app_calculate_engagement_score(workflow) ==
    LET platform == Get(workflow, "platform", "") IN
    IF platform = "YouTube" THEN
        LET views == Get(workflow, "views", 0)
            likes == Get(workflow, "likes", 0)
            comments == Get(workflow, "comments", 0)
        IN  IF views > 0 THEN (views * 1) + (likes * 4000) + (comments * 2000)
            ELSE 0
    ELSE IF platform = "Forum" THEN
        LET views == Get(workflow, "views", 0)
            replies == Get(workflow, "replies", 0)
            likes == Get(workflow, "likes", 0)
            contributors == Get(workflow, "contributors", 0)
        IN  (replies * 400000) + (likes * 300000) + (contributors * 200000) + (views * 100)
    ELSE IF platform = "Google Trends" THEN
        LET search_volume == Get(workflow, "search_volume", 0)
            trend_change == Get(workflow, "trend_change", 0)
        IN  (search_volume * 7000) + (Max0(trend_change) * 300000)
    ELSE 0

---------------------------------------------------------------------------
(* save_workflow, src/scheduler.py *)

\* variant: the lookup filters on the field 'workflow', as the API's does
scheduler_find_one_by_workflow(store, workflow) ==
    LET hits == { i \in 1 .. Len(store) :
                    /\ "workflow" \in DOMAIN store[i]
                    /\ store[i]["workflow"] = workflow["workflow_name"]
                    /\ store[i]["platform"] = workflow["platform"]
                    /\ store[i]["country"] = workflow["country"] }
    IN  IF hits = {} THEN 0 ELSE CHOOSE i \in hits : \A j \in hits : i <= j

\* find_one: the _id of the first document matching the three fields, 0 for None
scheduler_find_one(store, workflow) ==
    LET hits == { i \in 1 .. Len(store) :
                    /\ "workflow_name" \in DOMAIN store[i]
                    /\ store[i]["workflow_name"] = workflow["workflow_name"]
                    /\ store[i]["platform"] = workflow["platform"]
                    /\ store[i]["country"] = workflow["country"] }
    IN  IF hits = {} THEN 0 ELSE CHOOSE i \in hits : \A j \in hits : i <= j

\* variant: the '$set' document also sets created_at, as the insert branch does
scheduler_set_document_with_created_at(workflow) ==
    [views |-> Get(workflow, "views", 0),
     likes |-> Get(workflow, "likes", 0),
     comments |-> Get(workflow, "comments", 0),
     replies |-> Get(workflow, "replies", 0),
     contributors |-> Get(workflow, "contributors", 0),
     search_volume |-> Get(workflow, "search_volume", 0),
     trend_change |-> Get(workflow, "trend_change", 0),
     like_to_view_ratio |-> Get(workflow, "like_to_view_ratio", 0),
     comment_to_view_ratio |-> Get(workflow, "comment_to_view_ratio", 0),
     engagement_score |-> workflow["engagement_score"],
     source_url |-> Get(workflow, "source_url", <<>>),
     last_updated |-> workflow["last_updated"],
     created_at |-> workflow["last_updated"]]

\* the '$set' document of the update branch
scheduler_set_document(workflow) ==
    [views |-> Get(workflow, "views", 0),
     likes |-> Get(workflow, "likes", 0),
     comments |-> Get(workflow, "comments", 0),
     replies |-> Get(workflow, "replies", 0),
     contributors |-> Get(workflow, "contributors", 0),
     search_volume |-> Get(workflow, "search_volume", 0),
     trend_change |-> Get(workflow, "trend_change", 0),
     like_to_view_ratio |-> Get(workflow, "like_to_view_ratio", 0),
     comment_to_view_ratio |-> Get(workflow, "comment_to_view_ratio", 0),
     engagement_score |-> workflow["engagement_score"],
     source_url |-> Get(workflow, "source_url", <<>>),
     last_updated |-> workflow["last_updated"]]

\* now1, now2: what the first and the second datetime.now() of the call return
scheduler_save_workflow(store, workflow, now1, now2) ==
    LET scored == Put(Put(workflow, "engagement_score",
                          scheduler_calculate_engagement_score(workflow)),
                      "last_updated", utcnow(now1))
    IN  IF ~ ({"workflow_name", "platform", "country"} \subseteq DOMAIN workflow)
        THEN [workflows |-> store, outcome |-> "error", id |-> 0]
        ELSE LET existing == scheduler_find_one(store, scored) IN
             IF existing # 0
             THEN [workflows |-> [store EXCEPT ![existing] =
                                     SetFields(@, scheduler_set_document(scored))],
                   outcome |-> "updated", id |-> existing]
             ELSE [workflows |-> Append(store, Put(scored, "created_at", utcnow(now2))),
                   outcome |-> "inserted", id |-> Len(store) + 1]

---------------------------------------------------------------------------
(* save_workflow, src/app.py *)

app_find_one(store, workflow) ==
    LET hits == { i \in 1 .. Len(store) :
                    /\ "workflow" \in DOMAIN store[i]
                    /\ store[i]["workflow"] = workflow["workflow"]
                    /\ store[i]["platform"] = workflow["platform"]
                    /\ store[i]["country"] = workflow["country"] }
    IN  IF hits = {} THEN 0 ELSE CHOOSE i \in hits : \A j \in hits : i <= j

app_save_workflow(store, workflow, now1) ==
    LET scored == Put(Put(workflow, "engagement_score",
                          app_calculate_engagement_score(workflow)),
                      "last_updated", utcnow(now1))
    IN  IF ~ ({"workflow", "platform", "country"} \subseteq DOMAIN workflow)
        THEN [workflows |-> store, outcome |-> "error", id |-> 0]
        ELSE LET existing == app_find_one(store, scored) IN
             IF existing # 0
             THEN LET kept == Put(scored, "created_at",
                                  Get(store[existing], "created_at", scored["last_updated"]))
                  IN  [workflows |-> [store EXCEPT ![existing] = SetFields(@, kept)],
                       outcome |-> "updated", id |-> existing]
             ELSE [workflows |-> Append(store, Put(scored, "created_at", scored["last_updated"])),
                   outcome |-> "inserted", id |-> Len(store) + 1]

---------------------------------------------------------------------------
(* The identity key of the data model: (workflow name, platform, country) *)

NoName == <<"<absent>">>

IdentityKey(doc) ==
    <<Get(doc, "workflow_name", NoName), Get(doc, "platform", ""), Get(doc, "country", "")>>

HasKey(store, key) == \E i \in 1 .. Len(store) : IdentityKey(store[i]) = key

---------------------------------------------------------------------------
(* The store fed by both processes *)

NoCall ==
    [op |-> "none", key |-> <<>>, wf |-> <<>>, existed |-> FALSE, outcome |-> "none", id |-> 0]

\* what is recorded of a call: its argument's identity key, whether that key was
\* stored before the call, the branch taken, the _id touched, and the argument
\* itself when the call wrote it to the store
Called(op, store, wf, r) ==
    [op |-> op, key |-> IdentityKey(wf), wf |-> IF r.outcome = "error" THEN <<>> ELSE wf,
     existed |-> HasKey(store, IdentityKey(wf)), outcome |-> r.outcome, id |-> r.id]

NoScore == [schedulerCalled |-> FALSE, scheduler |-> 0, appCalled |-> FALSE, app |-> 0]

NoDedup == [platform |-> "none", input |-> <<>>, called |-> FALSE, result |-> <<>>]

NoProcs == <<>>

NoBatch == [saver |-> "none", records |-> <<>>, pos |-> 0, faults |-> <<>>, status |-> "none"]

NoResponse == [asked |-> FALSE]

NoRun == [by |-> "none", n |-> 0]

\* the initial value of the variables outside the part a specification uses
DedupIdle == dedup = NoDedup
ProcIdle == procs = NoProcs
BatchIdle == batch = NoBatch
QueryIdle == response = NoResponse
CollectIdle == history = <<>> /\ run = NoRun
SaveIdle == calls = 0 /\ last = NoCall
ScoreIdle == scoreIn = <<>> /\ scoreOut = NoScore

Init ==
    /\ workflows = <<>>
    /\ clock = 0
    /\ calls = 0
    /\ last = NoCall
    /\ scoreIn = <<>>
    /\ scoreOut = NoScore
    /\ DedupIdle /\ ProcIdle /\ BatchIdle /\ QueryIdle /\ CollectIdle

Tick ==
    /\ clock < MaxClock
    /\ clock' = clock + 1
    /\ UNCHANGED <<workflows, calls, last, scoreIn, scoreOut>>
    /\ UNCHANGED <<dedupVars, procVars, batchVars, queryVars, collectVars>>

\* scheduler.py: a collect_* function hands one collected record to save_workflow
SchedulerSave ==
    /\ calls < MaxCalls
    /\ \E wf \in AdapterRecords(clock), d \in 0 .. 1 :
        /\ clock + d <= MaxClock
        /\ LET r == scheduler_save_workflow(workflows, wf, clock, clock + d) IN
            /\ Len(r.workflows) <= MaxDocs
            /\ workflows' = r.workflows
            /\ last' = Called("scheduler", workflows, wf, r)
        /\ clock' = clock + d
    /\ calls' = calls + 1
    /\ UNCHANGED <<scoreIn, scoreOut>>
    /\ UNCHANGED <<dedupVars, procVars, batchVars, queryVars, collectVars>>

\* app.py: trigger_collection hands one collected record to save_workflow
AppSave ==
    /\ calls < MaxCalls
    /\ \E wf \in AdapterRecords(clock) :
        LET r == app_save_workflow(workflows, wf, clock) IN
            /\ Len(r.workflows) <= MaxDocs
            /\ workflows' = r.workflows
            /\ last' = Called("app", workflows, wf, r)
    /\ calls' = calls + 1
    /\ UNCHANGED <<clock, scoreIn, scoreOut>>
    /\ UNCHANGED <<dedupVars, procVars, batchVars, queryVars, collectVars>>

Next == Tick \/ SchedulerSave \/ AppSave

Spec == Init /\ [][Next]_vars

---------------------------------------------------------------------------
(* calculate_engagement_score called directly, on any dict: each metric    *)
(* key absent or present, the platform any string or absent                *)

MetricKeys ==
    {"views", "likes", "comments", "replies", "contributors", "search_volume", "trend_change"}

MetricDicts ==
    UNION { { d \in [F -> TrendChanges] : \A k \in F \ {"trend_change"} : d[k] >= 0 } :
              F \in SUBSET MetricKeys }

PlatformValues == {"YouTube", "Forum", "Google Trends", "Google", "Reddit"}

ScoreInputs ==
    MetricDicts \cup { Put(d, "platform", p) : d \in MetricDicts, p \in PlatformValues }

ScoreInit ==
    /\ workflows = <<>>
    /\ clock = 0
    /\ calls = 0
    /\ last = NoCall
    /\ scoreIn \in ScoreInputs
    /\ scoreOut = NoScore
    /\ DedupIdle /\ ProcIdle /\ BatchIdle /\ QueryIdle /\ CollectIdle

SchedulerScore ==
    /\ ~ scoreOut.schedulerCalled
    /\ scoreOut' = [scoreOut EXCEPT !.schedulerCalled = TRUE,
                                    !.scheduler = scheduler_calculate_engagement_score(scoreIn)]
    /\ UNCHANGED <<workflows, clock, calls, last, scoreIn>>
    /\ UNCHANGED <<dedupVars, procVars, batchVars, queryVars, collectVars>>

AppScore ==
    /\ ~ scoreOut.appCalled
    /\ scoreOut' = [scoreOut EXCEPT !.appCalled = TRUE,
                                    !.app = app_calculate_engagement_score(scoreIn)]
    /\ UNCHANGED <<workflows, clock, calls, last, scoreIn>>
    /\ UNCHANGED <<dedupVars, procVars, batchVars, queryVars, collectVars>>

ScoreNext == SchedulerScore \/ AppScore

ScoreSpec == ScoreInit /\ [][ScoreNext]_vars

---------------------------------------------------------------------------
(* collect_workflows of the video and forum collectors: the removal of     *)
(* duplicate URLs from the items collected over all queries / categories   *)

MaxItems == 3       \* items collected by one collect_workflows call

FoundVideoIds == {"v1", "v2"}

FoundPostUrls == {<<"https://community.n8n.io/t/", "p1">>,
                  <<"https://community.n8n.io/t/", "p2">>}

\* position of the entry of `unique` stored under `url`, 0 when there is none
UrlIndex(unique, url) ==
    LET hits == { i \in 1 .. Len(unique) : unique[i]["source_url"] = url }
    IN  IF hits = {} THEN 0 ELSE CHOOSE i \in hits : TRUE

\* variant: the first item collected under a URL is kept, as the forum collector does
RECURSIVE youtube_unique_first_wins(_, _)
youtube_unique_first_wins(all_workflows, unique) ==
    IF all_workflows = <<>> THEN unique
    ELSE LET wf == Head(all_workflows)
             at == UrlIndex(unique, wf["source_url"])
         IN  youtube_unique_first_wins(Tail(all_workflows),
                IF at = 0 THEN Append(unique, wf) ELSE unique)

\* the dict unique_workflows as the list of its values: a dict keeps its keys
\* in the order of their first insertion
RECURSIVE youtube_unique_workflows(_, _)
youtube_unique_workflows(all_workflows, unique) ==
    IF all_workflows = <<>> THEN unique
    ELSE LET wf == Head(all_workflows)
             at == UrlIndex(unique, wf["source_url"])
         IN  youtube_unique_workflows(Tail(all_workflows),
                IF at = 0 THEN Append(unique, wf)
                ELSE IF wf["views"] > unique[at]["views"] THEN [unique EXCEPT ![at] = wf]
                ELSE unique)

RECURSIVE forum_unique_workflows(_, _)
forum_unique_workflows(all_workflows, unique) ==
    IF all_workflows = <<>> THEN unique
    ELSE LET wf == Head(all_workflows)
             url == wf["source_url"]
         IN  forum_unique_workflows(Tail(all_workflows),
                IF url # <<>> /\ UrlIndex(unique, url) = 0 THEN Append(unique, wf)
                ELSE unique)

SeqsUpTo(S, n) == UNION { [1 .. k -> S] : k \in 0 .. n }

FoundVideos ==
    { youtube_workflow(<<"a">>, "US", views, likes, 0, vid) :
        views \in Counts, likes \in Counts, vid \in FoundVideoIds }

FoundPosts ==
    { extract_workflow_info([title |-> <<"a">>, views |-> views, replies |-> 0,
                             likes |-> 0, contributors |-> 1, url |-> url], 0) :
        views \in Counts, url \in FoundPostUrls }

DedupInit ==
    /\ workflows = <<>>
    /\ clock = 0
    /\ SaveIdle /\ ScoreIdle /\ ProcIdle /\ BatchIdle /\ QueryIdle /\ CollectIdle
    /\ \/ \E all \in SeqsUpTo(FoundVideos, MaxItems) :
             dedup = [platform |-> "YouTube", input |-> all, called |-> FALSE, result |-> <<>>]
       \/ \E all \in SeqsUpTo(FoundPosts, MaxItems) :
             dedup = [platform |-> "Forum", input |-> all, called |-> FALSE, result |-> <<>>]

YouTubeCollectWorkflows ==
    /\ dedup.platform = "YouTube"
    /\ ~ dedup.called
    /\ dedup' = [dedup EXCEPT !.called = TRUE,
                              !.result = youtube_unique_workflows(dedup.input, <<>>)]
    /\ UNCHANGED <<workflows, clock, saveVars, scoreVars, procVars, batchVars,
                   queryVars, collectVars>>

ForumCollectWorkflows ==
    /\ dedup.platform = "Forum"
    /\ ~ dedup.called
    /\ dedup' = [dedup EXCEPT !.called = TRUE,
                              !.result = forum_unique_workflows(dedup.input, <<>>)]
    /\ UNCHANGED <<workflows, clock, saveVars, scoreVars, procVars, batchVars,
                   queryVars, collectVars>>

DedupNext == YouTubeCollectWorkflows \/ ForumCollectWorkflows

DedupSpec == DedupInit /\ [][DedupNext]_vars

---------------------------------------------------------------------------
(* Two save_workflow calls running as separate processes against one store: *)
(* each call is a lookup (find_one) followed by a write (update_one or      *)
(* insert_one), and the store serialises the single operations only         *)

ConcRecords ==
    { youtube_workflow(<<"a">>, country, views, 0, 0, "v1") :
        country \in Countries, views \in Counts }

SaveCalls ==
    [kind : {"scheduler", "app"}, pc : {"called"}, wf : ConcRecords, existing : {0}]

ConcInit ==
    /\ workflows = <<>>
    /\ clock = 0
    /\ SaveIdle /\ ScoreIdle /\ DedupIdle /\ BatchIdle /\ QueryIdle /\ CollectIdle
    /\ procs \in [1 .. 2 -> SaveCalls]

\* save_workflow up to and including find_one
SaveLookup(p) ==
    /\ procs[p].pc = "called"
    /\ LET call == procs[p]
           score == IF call.kind = "scheduler"
                    THEN scheduler_calculate_engagement_score(call.wf)
                    ELSE app_calculate_engagement_score(call.wf)
           scored == Put(Put(call.wf, "engagement_score", score),
                         "last_updated", utcnow(clock))
           name == IF call.kind = "scheduler" THEN "workflow_name" ELSE "workflow"
       IN  IF ~ ({name, "platform", "country"} \subseteq DOMAIN call.wf)
           THEN procs' = [procs EXCEPT ![p] = [call EXCEPT !.pc = "done", !.wf = scored]]
           ELSE procs' = [procs EXCEPT ![p] =
                            [call EXCEPT !.pc = "found", !.wf = scored,
                                         !.existing = IF call.kind = "scheduler"
                                                      THEN scheduler_find_one(workflows, scored)
                                                      ELSE app_find_one(workflows, scored)]]
    /\ UNCHANGED <<workflows, clock, saveVars, scoreVars, dedupVars, batchVars,
                   queryVars, collectVars>>

\* save_workflow from `if existing:` on
SaveWrite(p) ==
    /\ procs[p].pc = "found"
    /\ LET call == procs[p] IN
        /\ workflows' =
              IF call.existing # 0
              THEN [workflows EXCEPT ![call.existing] =
                      IF call.kind = "scheduler"
                      THEN SetFields(@, scheduler_set_document(call.wf))
                      ELSE SetFields(@, Put(call.wf, "created_at",
                                            Get(@, "created_at", call.wf["last_updated"])))]
              ELSE Append(workflows,
                          Put(call.wf, "created_at",
                              IF call.kind = "scheduler" THEN utcnow(clock)
                              ELSE call.wf["last_updated"]))
        /\ procs' = [procs EXCEPT ![p] = [call EXCEPT !.pc = "done"]]
    /\ UNCHANGED <<clock, saveVars, scoreVars, dedupVars, batchVars, queryVars, collectVars>>

ConcTick ==
    /\ clock < MaxClock
    /\ clock' = clock + 1
    /\ UNCHANGED <<workflows, saveVars, scoreVars, dedupVars, procVars, batchVars,
                   queryVars, collectVars>>

ConcNext == ConcTick \/ \E p \in 1 .. 2 : SaveLookup(p) \/ SaveWrite(p)

ConcSpec == ConcInit /\ [][ConcNext]_vars

---------------------------------------------------------------------------
(* `for wf in workflows: save_workflow(wf)`: one batch of collected records *)
(* handed to save_workflow one after the other, with records that lack a    *)
(* field and storage operations that raise                                  *)

MaxBatch == 3       \* records in one batch

\* the storage operation of a call that raises, if any
Faults == {"none", "find_one", "write"}

Without(workflow, key) == [k \in DOMAIN workflow \ {key} |-> workflow[k]]

BatchRecords ==
    LET found == { youtube_workflow(<<"a">>, country, views, 0, 0, "v1") :
                     country \in Countries, views \in Counts }
        first == youtube_workflow(<<"a">>, "US", 0, 0, 0, "v1")
    IN  found \cup { Without(first, key) : key \in {"workflow_name", "country"} }

\* variant: save_workflow without its try / except, so that the exception
\* reaches the caller
scheduler_save_workflow_raises(store, workflow, now1, now2, fault) ==
    LET r == scheduler_save_workflow(store, workflow, now1, now2)
    IN  IF r.outcome = "error" \/ fault # "none"
        THEN [workflows |-> store, outcome |-> "raised", id |-> 0]
        ELSE r

\* save_workflow of scheduler.py with the storage failing at `fault`: the
\* KeyError of a missing field and the storage's exception both end in the
\* except clause, before the store was written
scheduler_save_workflow_io(store, workflow, now1, now2, fault) ==
    LET r == scheduler_save_workflow(store, workflow, now1, now2)
    IN  IF r.outcome = "error" \/ fault # "none"
        THEN [workflows |-> store, outcome |-> "error", id |-> 0]
        ELSE r

app_save_workflow_io(store, workflow, now1, fault) ==
    LET r == app_save_workflow(store, workflow, now1)
    IN  IF r.outcome = "error" \/ fault # "none"
        THEN [workflows |-> store, outcome |-> "error", id |-> 0]
        ELSE r

BatchInit ==
    /\ workflows = <<>>
    /\ clock = 0
    /\ SaveIdle /\ ScoreIdle /\ DedupIdle /\ ProcIdle /\ QueryIdle /\ CollectIdle
    /\ \E saver \in {"scheduler", "app"},
          records \in SeqsUpTo(BatchRecords, MaxBatch) \ {<<>>} :
          batch = [saver |-> saver, records |-> records, pos |-> 0,
                   faults |-> <<>>, status |-> "running"]

\* one iteration of the loop; an exception out of save_workflow would leave
\* the loop for the except clause of the collect function
BatchStep ==
    /\ batch.status = "running"
    /\ \E fault \in Faults, d \in 0 .. 1 :
        /\ clock + d <= MaxClock
        /\ LET wf == batch.records[batch.pos + 1]
               r == IF batch.saver = "scheduler"
                    THEN scheduler_save_workflow_io(workflows, wf, clock, clock + d, fault)
                    ELSE app_save_workflow_io(workflows, wf, clock, fault)
           IN  /\ workflows' = r.workflows
               /\ batch' = IF r.outcome = "raised"
                           THEN [batch EXCEPT !.faults = Append(@, fault),
                                              !.status = "aborted"]
                           ELSE [batch EXCEPT !.pos = @ + 1,
                                              !.faults = Append(@, fault),
                                              !.status = IF batch.pos + 1 = Len(batch.records)
                                                         THEN "done" ELSE "running"]
        /\ clock' = clock + d
    /\ UNCHANGED <<saveVars, scoreVars, dedupVars, procVars, queryVars, collectVars>>

BatchNext == BatchStep

BatchSpec == BatchInit /\ [][BatchNext]_vars

---------------------------------------------------------------------------
(* GET /api/workflows, src/app.py, over a store filled by the scheduler *)

MaxRows == 3        \* documents in the store that get_workflows reads

\* the collected records that fill the store: videos of both countries and
\* one trend record
QueryRecords(now) ==
    { wf \in YouTubeRecords : wf["comments"] = 0 /\ wf["likes"] <= wf["views"] }
    \cup { wf \in GoogleRecords(now) :
              /\ wf["country"] = "US" /\ wf["trend_change"] = 0
              /\ wf["trend_score"] = 0 /\ wf["search_volume"] = 0 }

PlatformArgs == {"all", "YouTube"}

CountryArgs == {"all", "US"}

SortArgs == {"engagement", "views", "likes", "recent", "name"}

sort_column(sort_by) ==
    CASE sort_by = "engagement" -> "engagement_score"
      [] sort_by = "views" -> "views"
      [] sort_by = "likes" -> "likes"
      [] sort_by = "recent" -> "last_updated"
      [] OTHER -> "engagement_score"

\* find(filter_query): the ids of the documents with the fields of the filter
mongo_find(store, platform, country) ==
    { i \in 1 .. Len(store) :
        /\ platform # "all" => store[i]["platform"] = platform
        /\ country # "all" => store[i]["country"] = country }

\* the value a document is sorted by: a missing field sorts as null, below
\* every number; a datetime sorts by its instant
mongo_sort_value(doc, column) ==
    IF column \notin DOMAIN doc THEN 0 - 1
    ELSE IF column = "last_updated" THEN doc[column].t
    ELSE doc[column]

\* sort(column, DESCENDING): the orders the store may return the documents
\* `ids` in; documents with equal values come in any order
mongo_sort_descending(store, ids, column) ==
    { order \in [1 .. Cardinality(ids) -> ids] :
        /\ \A i, j \in DOMAIN order : i # j => order[i] # order[j]
        /\ \A i, j \in DOMAIN order :
              i < j => mongo_sort_value(store[order[i]], column)
                         >= mongo_sort_value(store[order[j]], column) }

\* variant: offset counts pages of `limit` rows
mongo_skip_pages(order, offset, limit) ==
    SubSeq(order, offset * limit + 1,
           IF offset * limit + limit < Len(order) THEN offset * limit + limit ELSE Len(order))

\* skip(offset).limit(limit) for limit >= 1
mongo_skip_limit(order, offset, limit) ==
    SubSeq(order, offset + 1,
           IF offset + limit < Len(order) THEN offset + limit ELSE Len(order))

\* last_updated as the response carries it
serialize_last_updated(row) ==
    IF "last_updated" \notin DOMAIN row THEN <<>>
    ELSE IF row["last_updated"].kind = "datetime" THEN isoformat(row["last_updated"].t)
    ELSE row["last_updated"]

\* ratios are held in units of 1/10000 and trend_change in tenths, the
\* precision that round(x, 4) and round(x, 2) keep
popularity_metrics(row) ==
    IF row["platform"] = "YouTube"
    THEN [views |-> Get(row, "views", 0), likes |-> Get(row, "likes", 0),
          comments |-> Get(row, "comments", 0),
          like_to_view_ratio |-> Get(row, "like_to_view_ratio", 0),
          comment_to_view_ratio |-> Get(row, "comment_to_view_ratio", 0)]
    ELSE IF row["platform"] = "Forum"
    THEN [views |-> Get(row, "views", 0), replies |-> Get(row, "replies", 0),
          likes |-> Get(row, "likes", 0), contributors |-> Get(row, "contributors", 0)]
    ELSE IF row["platform"] = "Google Trends"
    THEN [search_volume |-> Get(row, "search_volume", 0),
          trend_change |-> Get(row, "trend_change", 0)]
    ELSE <<>>

response_workflow(store, id) ==
    [id |-> id,
     workflow |-> store[id]["workflow_name"],
     platform |-> store[id]["platform"],
     country |-> store[id]["country"],
     popularity_metrics |-> popularity_metrics(store[id]),
     engagement_score |-> Get(store[id], "engagement_score", 0),
     source_url |-> Get(store[id], "source_url", <<>>),
     last_updated |-> serialize_last_updated(store[id])]

QueryInit ==
    /\ workflows = <<>>
    /\ clock = 0
    /\ SaveIdle /\ ScoreIdle /\ DedupIdle /\ ProcIdle /\ BatchIdle /\ QueryIdle /\ CollectIdle

\* the scheduler saves one collected record, later than the record before
\* it; the response to an earlier request no longer describes the store
QuerySave ==
    /\ calls < MaxCalls
    /\ \E wf \in QueryRecords(clock) :
        LET r == scheduler_save_workflow(workflows, wf, clock, clock) IN
            /\ Len(r.workflows) <= MaxRows
            /\ workflows' = r.workflows
    /\ calls' = calls + 1
    /\ clock' = IF clock < MaxClock THEN clock + 1 ELSE clock
    /\ response' = NoResponse
    /\ UNCHANGED <<last, scoreVars, dedupVars, procVars, batchVars, collectVars>>

\* a request leaves the store as it is: one request in each state of the
\* store shows every response
GetWorkflows ==
    /\ ~ response.asked
    /\ \E platform \in PlatformArgs, country \in CountryArgs, sort_by \in SortArgs,
          limit \in 1 .. MaxRows - 1, offset \in 0 .. MaxRows - 1 :
        LET found == mongo_find(workflows, platform, country) IN
        \E order \in mongo_sort_descending(workflows, found, sort_column(sort_by)) :
            LET rows == mongo_skip_limit(order, offset, limit) IN
            response' = [asked |-> TRUE, platform |-> platform, country |-> country,
                         sort |-> sort_by, limit |-> limit, offset |-> offset,
                         success |-> TRUE,
                         total |-> Cardinality(found),
                         count |-> Len(rows),
                         workflows |-> [k \in 1 .. Len(rows) |->
                                          response_workflow(workflows, rows[k])]]
    /\ UNCHANGED <<workflows, clock, saveVars, scoreVars, dedupVars, procVars,
                   batchVars, collectVars>>

QueryNext == QuerySave \/ GetWorkflows

QuerySpec == QueryInit /\ [][QueryNext]_vars

---------------------------------------------------------------------------
(* Collection runs: POST /api/collect of src/app.py and run_daily_collection *)
(* of src/scheduler.py, with the run log db.collection_history               *)

MaxRuns == 1        \* collection runs

Platforms == {"youtube", "forum", "google"}

\* the `countries` of a request body
CountryLists == {<<>>, <<"US">>, <<"US", "IN">>}

\* what one collect_workflows call does: "ok" returns the records it found,
\* "failed" returns nothing because the collector caught the exception of its
\* own request (search_videos, get_trends_data and ForumCollector.
\* collect_workflows end in `except Exception: return []` / `return None`),
\* "raise" lets an exception escape to the caller (the de-duplication and the
\* sort of the video and trend collectors run outside any try)
Returns(kind, found) == [kind |-> kind, workflows |-> found]

YouTubeOutcomes(country) ==
    LET first == youtube_workflow(<<"a">>, country, MaxCount, 0, 0, "v1")
        second == youtube_workflow(<<"a">>, country, 0, 0, 0, "v2")
    IN  { Returns("ok", <<>>), Returns("ok", <<first>>), Returns("ok", <<first, second>>),
          Returns("failed", <<>>), Returns("raise", <<>>) }

ForumOutcomes(now) ==
    { Returns("ok", <<extract_workflow_info(
                        [title |-> <<"a">>, views |-> MaxCount, replies |-> 0, likes |-> 0,
                         contributors |-> 1,
                         url |-> <<"https://community.n8n.io/t/", "p1">>], now)>>),
      Returns("failed", <<>>) }

GoogleOutcomes(country, now) ==
    { Returns("ok", <<create_workflow_from_trend(
                        [keyword |-> <<"n8n automation">>, country |-> country,
                         trend_score |-> MaxCount, trend_change |-> 0,
                         search_volume |-> MaxCount,
                         related_queries |-> <<<<"n8n automation", " tutorial">>>>,
                         timestamp |-> isoformat(now)])>>),
      Returns("failed", <<>>), Returns("raise", <<>>) }

\* the outcomes of the collectors' calls of one run
Externals(now) ==
    { ext \in [youtube : [Countries -> UNION { YouTubeOutcomes(c) : c \in Countries }],
               forum : ForumOutcomes(now),
               google : [Countries -> UNION { GoogleOutcomes(c, now) : c \in Countries }]] :
        \A c \in Countries : /\ ext.youtube[c] \in YouTubeOutcomes(c)
                             /\ ext.google[c] \in GoogleOutcomes(c, now) }

\* YouTubeCollector built with api_key None: every request is refused and
\* search_videos returns [] for it
without_api_key(outcome) ==
    IF outcome.kind = "ok" THEN Returns("failed", <<>>) ELSE outcome

log_entry(platform, count, status, error, now) ==
    [platform |-> platform, workflows_collected |-> count, status |-> status,
     error_message |-> error, timestamp |-> utcnow(now)]

\* log_collection: appends the entry to db.collection_history
log_collection(st, platform, count, status, error, now) ==
    [st EXCEPT !.history = Append(@, log_entry(platform, count, status, error, now))]

\* `for wf in workflows: save_workflow(wf)`
RECURSIVE save_all(_, _, _, _)
save_all(saver, store, records, now) ==
    IF records = <<>> THEN store
    ELSE save_all(saver,
                  IF saver = "app"
                  THEN app_save_workflow(store, Head(records), now).workflows
                  ELSE scheduler_save_workflow(store, Head(records), now, now).workflows,
                  Tail(records), now)

\* the local variable `workflows` of trigger_collection before its first
\* assignment
Unbound == [bound |-> FALSE, value |-> <<>>]

\* the state a handler works on: the two collections, its local variables
\* and whether the try block was left by an exception
Frame(store, log) ==
    [workflows |-> store, history |-> log, local |-> Unbound, total_count |-> 0,
     collections |-> <<>>, raised |-> FALSE]

\* ---- src/app.py ----

RECURSIVE app_country_loop(_, _, _, _, _)
app_country_loop(label, countries, outcomes, st, now) ==
    IF countries = <<>> THEN st
    ELSE LET country == Head(countries)
             out == outcomes[country]
         IN  IF out.kind = "raise" THEN [st EXCEPT !.raised = TRUE]
             ELSE app_country_loop(label, Tail(countries), outcomes,
                    [st EXCEPT !.workflows = save_all("app", @, out.workflows, now),
                               !.local = [bound |-> TRUE, value |-> out.workflows],
                               !.collections = Append(@, [platform |-> label,
                                                          country |-> country,
                                                          count |-> Len(out.workflows)])],
                    now)

app_except(st, label, message, now) ==
    [log_collection(st, label, 0, "error", message, now)
        EXCEPT !.collections = Append(@, [platform |-> label, error |-> message])]

\* the YouTube and the Google section of trigger_collection: the loop over
\* the countries, then log_collection(label, len(workflows), 'success') on
\* the `workflows` of the last iteration, which is a NameError when no
\* iteration of this or an earlier section assigned it
app_country_section(label, countries, outcomes, st0, now) ==
    LET st == app_country_loop(label, countries, outcomes,
                               [st0 EXCEPT !.raised = FALSE], now)
    IN  IF st.raised THEN app_except(st, label, "collector error", now)
        ELSE IF ~ st.local.bound THEN app_except(st, label, "UnboundLocalError", now)
        ELSE log_collection(st, label, Len(st.local.value), "success", "None", now)

app_forum_section(out, st, now) ==
    IF out.kind = "raise" THEN app_except(st, "Forum", "collector error", now)
    ELSE log_collection(
            [st EXCEPT !.workflows = save_all("app", @, out.workflows, now),
                       !.local = [bound |-> TRUE, value |-> out.workflows],
                       !.collections = Append(@, [platform |-> "Forum",
                                                  count |-> Len(out.workflows)])],
            "Forum", Len(out.workflows), "success", "None", now)

trigger_collection(platforms, countries, key, ext, st0, now) ==
    LET youtube == [c \in Countries |->
                      IF key THEN ext.youtube[c] ELSE without_api_key(ext.youtube[c])]
        s1 == IF "youtube" \in platforms
              THEN app_country_section("YouTube", countries, youtube, st0, now) ELSE st0
        s2 == IF "forum" \in platforms THEN app_forum_section(ext.forum, s1, now) ELSE s1
    IN  IF "google" \in platforms
        THEN app_country_section("Google", countries, ext.google, s2, now) ELSE s2

\* ---- src/scheduler.py ----

RECURSIVE scheduler_country_loop(_, _, _, _)
scheduler_country_loop(countries, outcomes, st, now) ==
    IF countries = <<>> THEN st
    ELSE LET out == outcomes[Head(countries)]
         IN  IF out.kind = "raise" THEN [st EXCEPT !.raised = TRUE]
             ELSE scheduler_country_loop(Tail(countries), outcomes,
                    [st EXCEPT !.workflows = save_all("scheduler", @, out.workflows, now),
                               !.local = [bound |-> TRUE, value |-> out.workflows],
                               !.total_count = @ + Len(out.workflows)],
                    now)

scheduler_country_section(label, outcomes, st0, now) ==
    LET st == scheduler_country_loop(<<"US", "IN">>, outcomes,
                                     [st0 EXCEPT !.raised = FALSE, !.total_count = 0], now)
    IN  IF st.raised THEN log_collection(st, label, 0, "error", "collector error", now)
        ELSE log_collection(st, label, st.total_count, "success", "None", now)

\* variant: a missing API key only returns, without a run-log entry
collect_youtube_data_unlogged(key, outcomes, st, now) ==
    IF ~ key THEN st
    ELSE scheduler_country_section("YouTube", outcomes, st, now)

collect_youtube_data(key, outcomes, st, now) ==
    IF ~ key THEN log_collection(st, "YouTube", 0, "error", "API key not set", now)
    ELSE scheduler_country_section("YouTube", outcomes, st, now)

collect_forum_data(out, st, now) ==
    IF out.kind = "raise" THEN log_collection(st, "Forum", 0, "error", "collector error", now)
    ELSE log_collection(
            [st EXCEPT !.workflows = save_all("scheduler", @, out.workflows, now),
                       !.local = [bound |-> TRUE, value |-> out.workflows]],
            "Forum", Len(out.workflows), "success", "None", now)

collect_google_data(outcomes, st, now) ==
    scheduler_country_section("Google", outcomes, st, now)

run_daily_collection(key, ext, st0, now) ==
    collect_google_data(ext.google,
        collect_forum_data(ext.forum,
            collect_youtube_data(key, ext.youtube, st0, now), now), now)

\* ---- the runs ----

CollectInit ==
    /\ workflows = <<>>
    /\ clock = 0
    /\ SaveIdle /\ ScoreIdle /\ DedupIdle /\ ProcIdle /\ BatchIdle /\ QueryIdle /\ CollectIdle

\* POST /api/collect with a JSON body; key: YOUTUBE_API_KEY is set
TriggerCollection ==
    /\ run.n < MaxRuns
    /\ \E platforms \in SUBSET Platforms, countries \in CountryLists,
          key \in BOOLEAN, ext \in Externals(clock) :
        LET st == trigger_collection(platforms, countries, key, ext,
                                     Frame(workflows, history), clock)
        IN  /\ workflows' = st.workflows
            /\ history' = st.history
            /\ run' = [by |-> "app", n |-> run.n + 1, platforms |-> platforms,
                       countries |-> countries, key |-> key, ext |-> ext,
                       start |-> Len(history), before |-> workflows,
                       response |-> [success |-> TRUE, collections |-> st.collections]]
    /\ UNCHANGED <<clock, saveVars, scoreVars, dedupVars, procVars, batchVars, queryVars>>

\* the scheduler's job
RunDailyCollection ==
    /\ run.n < MaxRuns
    /\ \E key \in BOOLEAN, ext \in Externals(clock) :
        LET st == run_daily_collection(key, ext, Frame(workflows, history), clock)
        IN  /\ workflows' = st.workflows
            /\ history' = st.history
            /\ run' = [by |-> "scheduler", n |-> run.n + 1, platforms |-> Platforms,
                       countries |-> <<"US", "IN">>, key |-> key, ext |-> ext,
                       start |-> Len(history), before |-> workflows,
                       response |-> [success |-> TRUE, collections |-> <<>>]]
    /\ UNCHANGED <<clock, saveVars, scoreVars, dedupVars, procVars, batchVars, queryVars>>

CollectNext == TriggerCollection \/ RunDailyCollection

CollectSpec == CollectInit /\ [][CollectNext]_vars

---------------------------------------------------------------------------
(* Properties *)

\* the scoring function of the design's section 4.1, on a stored document
Section41Score(doc) ==
    LET platform == Get(doc, "platform", "") IN
    IF platform = "YouTube" THEN
        IF Get(doc, "views", 0) > 0
        THEN Get(doc, "views", 0) + Get(doc, "likes", 0) * 4000 + Get(doc, "comments", 0) * 2000
        ELSE 0
    ELSE IF platform = "Forum" THEN
        Get(doc, "replies", 0) * 400000 + Get(doc, "likes", 0) * 300000
            + Get(doc, "contributors", 0) * 200000 + Get(doc, "views", 0) * 100
    ELSE IF platform = "Google Trends" THEN
        Get(doc, "search_volume", 0) * 7000 + Max0(Get(doc, "trend_change", 0)) * 300000
    ELSE 0

Wrote == last.outcome \in {"inserted", "updated"}

\* C1: after any sequence of save_workflow calls from the empty store, no two
\* stored documents have the same (workflow_name, platform, country).
C1_UniqueIdentityKey ==
    \A i, j \in 1 .. Len(workflows) :
        i # j => IdentityKey(workflows[i]) # IdentityKey(workflows[j])

\* two keys stored, the third call an update of one of them
C1_Witness ==
    /\ calls = 3
    /\ Len(workflows) = 2
    /\ last.op = "scheduler"
    /\ last.outcome = "updated"

\* C2: a save_workflow call, of the scheduler or of the API, on a collector's
\* record whose identity key is not stored leaves a document with that key
\* in the store.
C2_SaveStoresRecord ==
    (last.op # "none" /\ ~ last.existed) => HasKey(workflows, last.key)

\* C3: no step changes the created_at of a stored document (and no step
\* removes a document).
C3_CreatedAtImmutable ==
    [][\A i \in 1 .. Len(workflows) :
          /\ i <= Len(workflows')
          /\ workflows'[i]["created_at"] = workflows[i]["created_at"]]_vars

\* a forum record, which carries its own created_at text, has updated a
\* document inserted at an earlier time, whose created_at is still the
\* datetime of the insert
C3_Witness ==
    /\ last.outcome = "updated"
    /\ last.key[2] = "Forum"
    /\ last.wf["created_at"].kind = "isostr"
    /\ workflows[last.id]["created_at"].kind = "datetime"
    /\ workflows[last.id]["created_at"].t < workflows[last.id]["last_updated"].t

SameExceptLastUpdated(d1, d2) ==
    /\ DOMAIN d1 = DOMAIN d2
    /\ \A k \in (DOMAIN d1) \ {"last_updated"} : d1[k] = d2[k]

\* C4: when a save_workflow call that wrote a record is followed by a call
\* with the same record, the second call leaves the number of documents
\* unchanged and every document as it was, field for field, last_updated
\* excepted.
C4_Idempotent ==
    [][(/\ calls' = calls + 1
        /\ Wrote
        /\ last'.outcome \in {"inserted", "updated"}
        /\ last'.key = last.key
        /\ last'.wf = last.wf)
       => (/\ Len(workflows') = Len(workflows)
           /\ \A i \in 1 .. Len(workflows) :
                 SameExceptLastUpdated(workflows[i], workflows'[i]))]_vars

\* C5: every stored document's engagement_score is the section 4.1 score of
\* its stored platform and metrics.
C5_ScoreOfStoredMetrics ==
    \A i \in 1 .. Len(workflows) :
        workflows[i]["engagement_score"] = Section41Score(workflows[i])

\* C6: the score save_workflow stores for a record of the trends collector is
\* search_volume * 0.7 + max(0, trend_change) * 300, and the scheduler's and
\* the API's calculate_engagement_score agree on the record.
C6_TrendsScore ==
    (Wrote /\ last.key[2] = "Google Trends") =>
        /\ workflows[last.id]["engagement_score"] =
               last.wf["search_volume"] * 7000 + Max0(last.wf["trend_change"]) * 300000
        /\ scheduler_calculate_engagement_score(last.wf) =
               app_calculate_engagement_score(last.wf)

UpsertMetricKeys ==
    {"views", "likes", "comments", "replies", "contributors", "search_volume",
     "trend_change", "like_to_view_ratio", "comment_to_view_ratio",
     "reply_to_view_ratio", "trend_score", "popularity_index"}

\* C9: after save_workflow has updated a stored document, every metric field
\* the incoming record carries has the incoming value in the document, and
\* the stored score is the one computed from the incoming record.
C9_UpdateOverwritesMetrics ==
    last.outcome = "updated" =>
        /\ \A k \in UpsertMetricKeys \cap DOMAIN last.wf :
              /\ k \in DOMAIN workflows[last.id]
              /\ workflows[last.id][k] = last.wf[k]
        /\ workflows[last.id]["engagement_score"] =
              IF last.op = "scheduler"
              THEN scheduler_calculate_engagement_score(last.wf)
              ELSE app_calculate_engagement_score(last.wf)

\* C10: right after save_workflow has inserted a document, its created_at
\* equals its last_updated.
C10_InsertStampsEqual ==
    last.outcome = "inserted" =>
        workflows[last.id]["created_at"] = workflows[last.id]["last_updated"]

\* C7: for a video-platform record either calculate_engagement_score returns
\* views * 0.0001 + likes * 0.4 + comments * 0.2 when views > 0 and 0 when
\* views is 0 or absent, whatever likes and comments are.
C7_VideoScore ==
    Get(scoreIn, "platform", "") = "YouTube" =>
        LET expected ==
                IF "views" \in DOMAIN scoreIn /\ scoreIn["views"] > 0
                THEN scoreIn["views"] + Get(scoreIn, "likes", 0) * 4000
                         + Get(scoreIn, "comments", 0) * 2000
                ELSE 0
        IN  /\ scoreOut.schedulerCalled => scoreOut.scheduler = expected
            /\ scoreOut.appCalled => scoreOut.app = expected

\* a video record with no views but likes and comments, scored 0 by both
C7_Witness ==
    /\ Get(scoreIn, "platform", "") = "YouTube"
    /\ Get(scoreIn, "views", 0) = 0
    /\ Get(scoreIn, "likes", 0) > 0
    /\ Get(scoreIn, "comments", 0) > 0
    /\ scoreOut.schedulerCalled /\ scoreOut.appCalled
    /\ scoreOut.scheduler = 0 /\ scoreOut.app = 0

\* C8: for a forum record either calculate_engagement_score returns
\* replies * 40 + likes * 30 + contributors * 20 + views * 0.01, an absent
\* field counting as 0, with no gating on views.
C8_ForumScore ==
    Get(scoreIn, "platform", "") = "Forum" =>
        LET Term(k, weight) == IF k \in DOMAIN scoreIn THEN scoreIn[k] * weight ELSE 0
            expected == Term("replies", 400000) + Term("likes", 300000)
                          + Term("contributors", 200000) + Term("views", 100)
        IN  /\ scoreOut.schedulerCalled => scoreOut.scheduler = expected
            /\ scoreOut.appCalled => scoreOut.app = expected

\* a forum record with views = 0, no contributors field, and replies, scored
\* by both from the replies and likes alone
C8_Witness ==
    /\ Get(scoreIn, "platform", "") = "Forum"
    /\ "views" \in DOMAIN scoreIn /\ scoreIn["views"] = 0
    /\ "contributors" \notin DOMAIN scoreIn
    /\ Get(scoreIn, "replies", 0) > 0
    /\ scoreOut.schedulerCalled /\ scoreOut.appCalled
    /\ scoreOut.scheduler = Get(scoreIn, "replies", 0) * 400000 + Get(scoreIn, "likes", 0) * 300000
    /\ scoreOut.app = scoreOut.scheduler

\* the items a collect_workflows call collected under the URL of item wf
SameUrl(items, wf) == { i \in 1 .. Len(items) : items[i]["source_url"] = wf["source_url"] }

\* the list returned holds no URL twice, and each item of it has the maximum
\* views of the items collected under its URL
KeepsHighestViews ==
    /\ \A i, j \in 1 .. Len(dedup.result) :
          i # j => dedup.result[i]["source_url"] # dedup.result[j]["source_url"]
    /\ \A i \in 1 .. Len(dedup.result) :
          /\ \E k \in 1 .. Len(dedup.input) : dedup.input[k] = dedup.result[i]
          /\ \A k \in SameUrl(dedup.input, dedup.result[i]) :
                dedup.input[k]["views"] <= dedup.result[i]["views"]

\* C17: YouTubeCollector.collect_workflows returns at most one item per
\* source_url, an item for every URL collected, and the item returned for a
\* URL has the maximum views of all the items collected with that URL.
C17_VideoDedupKeepsMaxViews ==
    (dedup.platform = "YouTube" /\ dedup.called) =>
        /\ KeepsHighestViews
        /\ \A k \in 1 .. Len(dedup.input) : SameUrl(dedup.result, dedup.input[k]) # {}

\* three items collected, the second a duplicate URL with more views than the
\* first: two items returned, the first of them the one with more views
C17_Witness ==
    /\ dedup.platform = "YouTube" /\ dedup.called
    /\ Len(dedup.input) = 3
    /\ dedup.input[1]["source_url"] = dedup.input[2]["source_url"]
    /\ dedup.input[1]["views"] < dedup.input[2]["views"]
    /\ dedup.input[3]["source_url"] # dedup.input[1]["source_url"]
    /\ Len(dedup.result) = 2
    /\ dedup.result[1] = dedup.input[2]

\* C20: ForumCollector.collect_workflows returns at most one item per
\* source_url, and of several items collected with one URL it keeps one with
\* the highest views.
C20_ForumDedupKeepsMaxViews ==
    (dedup.platform = "Forum" /\ dedup.called) => KeepsHighestViews

\* the stored documents that carry the identity key `key`
StoredUnder(key) == { i \in 1 .. Len(workflows) : IdentityKey(workflows[i]) = key }

\* C19: once two save_workflow calls on one identity key that was not stored
\* when they began (a scheduled collection and an API-triggered or a second
\* scheduled one) have both returned, whatever the order of their lookups
\* and writes, the store holds exactly one document with that key.
C19_AtomicUpsert ==
    ( /\ procs # NoProcs
      /\ \E p \in 1 .. 2 : procs[p].kind = "scheduler"
      /\ \A p \in 1 .. 2 : procs[p].pc = "done"
      /\ IdentityKey(procs[1].wf) = IdentityKey(procs[2].wf) )
    => Cardinality(StoredUnder(IdentityKey(procs[1].wf))) = 1

\* the fields save_workflow of the batch's program reads without a default
KeyFields(saver) ==
    IF saver = "scheduler" THEN {"workflow_name", "platform", "country"}
    ELSE {"workflow", "platform", "country"}

\* the call that a step of the batch made ended in the except clause
StepFailed ==
    \/ batch'.faults[Len(batch'.faults)] # "none"
    \/ ~ (KeyFields(batch.saver) \subseteq DOMAIN batch.records[batch.pos + 1])

\* C12: no save_workflow call of a batch raises into the loop: each step
\* passes the next record on, a call on a record without an identity-key
\* field or with a failing storage operation leaves the store as it was, and
\* the calls after it still reconcile their records (the store then holds
\* the record's key).
C12_SaveNeverPropagates ==
    [][ batch # NoBatch =>
          /\ batch'.status # "aborted"
          /\ batch'.pos = batch.pos + 1
          /\ batch'.status = "done" <=> batch'.pos = Len(batch.records)
          /\ StepFailed => workflows' = workflows
          /\ (~ StepFailed) => HasKey(workflows', IdentityKey(batch.records[batch.pos + 1]))
      ]_vars

\* a batch of three: the first record lacks its name, the write of the second
\* call fails, and the third record is stored all the same
C12_Witness ==
    /\ batch.saver = "scheduler" /\ batch.status = "done"
    /\ Len(batch.records) = 3
    /\ "workflow_name" \notin DOMAIN batch.records[1]
    /\ batch.faults = <<"none", "write", "none">>
    /\ Len(workflows) = 1
    /\ IdentityKey(workflows[1]) = IdentityKey(batch.records[3])

\* two records are equal in every field but country
DifferOnlyInCountry(a, b) ==
    /\ DOMAIN a = DOMAIN b
    /\ "country" \in DOMAIN a
    /\ a["country"] # b["country"]
    /\ \A k \in DOMAIN a \ {"country"} : a[k] = b[k]

\* C11: when the second of two records that differ only in country is saved
\* right after the first, the store holds two documents, one per country, and
\* the first document is what it was before the second call.
C11_CountryDistinguishes ==
    [][ ( /\ batch # NoBatch
          /\ batch.pos = 1 /\ batch'.pos = 2
          /\ batch'.faults = <<"none", "none">>
          /\ DifferOnlyInCountry(batch.records[1], batch.records[2]) )
        => /\ Len(workflows') = 2
           /\ workflows'[1] = workflows[1]
           /\ workflows'[1]["country"] = batch.records[1]["country"]
           /\ workflows'[2]["country"] = batch.records[2]["country"]
      ]_vars

\* the stored documents a request for (platform, country) is about
Matching(platform, country) ==
    { i \in 1 .. Len(workflows) :
        /\ platform = "all" \/ workflows[i]["platform"] = platform
        /\ country = "all" \/ workflows[i]["country"] = country }

\* the number a request sorted by `sort_by` orders document i by; a document
\* without the field counts below every document that has it
OrderedBy(sort_by, i) ==
    LET doc == workflows[i] IN
    CASE sort_by = "views" -> IF "views" \in DOMAIN doc THEN doc["views"] ELSE 0 - 1
      [] sort_by = "likes" -> IF "likes" \in DOMAIN doc THEN doc["likes"] ELSE 0 - 1
      [] sort_by = "recent" -> doc["last_updated"].t
      [] OTHER -> doc["engagement_score"]

\* C18: the rows of a get_workflows response are stored documents that match
\* the platform / country filter ('all' matching everything), no document
\* twice, in non-increasing order of the sort key, and they are the documents
\* at positions offset .. offset+limit-1 of such an order of all the matching
\* documents; total is the number of matching documents.
C18_FilterSortPage ==
    response.asked =>
        LET M == Matching(response.platform, response.country)
            rows == response.workflows
            n == Len(rows)
            key(k) == OrderedBy(response.sort, rows[k].id)
            rest == IF Cardinality(M) > response.offset
                    THEN Cardinality(M) - response.offset ELSE 0
        IN  /\ response.total = Cardinality(M)
            /\ response.count = n
            /\ n = IF response.limit < rest THEN response.limit ELSE rest
            /\ \A k \in 1 .. n :
                  /\ rows[k].id \in M
                  /\ rows[k].workflow = workflows[rows[k].id]["workflow_name"]
                  /\ rows[k].platform = workflows[rows[k].id]["platform"]
                  /\ rows[k].country = workflows[rows[k].id]["country"]
            /\ \A j, k \in 1 .. n : j # k => rows[j].id # rows[k].id
            /\ \A j, k \in 1 .. n : j < k => key(j) >= key(k)
            /\ \A k \in 1 .. n :
                  /\ Cardinality({ i \in M : OrderedBy(response.sort, i) > key(k) })
                        <= response.offset + k - 1
                  /\ Cardinality({ i \in M : OrderedBy(response.sort, i) >= key(k) })
                        >= response.offset + k

\* three stored documents, two of them of country US: a video with a view
\* and a trend record (which has no views); asked for country US by views
\* from offset 1 with limit 1, the one row is the trend record, of a total
\* of two
C18_Witness ==
    /\ response.asked
    /\ response.platform = "all" /\ response.country = "US"
    /\ response.sort = "views" /\ response.offset = 1 /\ response.limit = 1
    /\ Len(workflows) = 3
    /\ response.total = 2
    /\ response.count = 1
    /\ response.workflows[1].platform = "Google Trends"

\* the run-log entries the run appended
RunLog == SubSeq(history, run.start + 1, Len(history))

RunLabel(p) ==
    CASE p = "youtube" -> "YouTube" [] p = "forum" -> "Forum" [] p = "google" -> "Google"

EntriesOf(p) == { i \in DOMAIN RunLog : RunLog[i].platform = RunLabel(p) }

\* the one entry of platform p, where there is exactly one
EntryOf(p) == RunLog[CHOOSE i \in EntriesOf(p) : TRUE]

\* what the collector of platform p did when the run called it for country c
CallOutcome(p, c) ==
    CASE p = "youtube" -> IF run.key THEN run.ext.youtube[c]
                          ELSE IF run.ext.youtube[c].kind = "ok"
                               THEN [kind |-> "failed", workflows |-> <<>>]
                               ELSE run.ext.youtube[c]
      [] p = "forum" -> run.ext.forum
      [] p = "google" -> run.ext.google[c]

\* the countries platform p is collected for; the forum collector is called
\* once, for no country in particular
CountriesOf(p) == IF p = "forum" THEN <<"Global">> ELSE run.countries

\* the calls of platform p that the run came to make: those up to the first
\* that raised; none when the scheduler found no API key
CallsMade(p) ==
    IF run.by = "scheduler" /\ p = "youtube" /\ ~ run.key THEN {}
    ELSE { k \in DOMAIN CountriesOf(p) :
             \A j \in 1 .. k - 1 : CallOutcome(p, CountriesOf(p)[j]).kind # "raise" }

CollectorRaised(p) ==
    \E k \in CallsMade(p) : CallOutcome(p, CountriesOf(p)[k]).kind = "raise"

CredentialMissing(p) == p = "youtube" /\ ~ run.key

RECURSIVE SumOver(_, _)
SumOver(f, S) ==
    IF S = {} THEN 0
    ELSE LET x == CHOOSE y \in S : TRUE IN f[x] + SumOver(f, S \ {x})

\* the number of records the collector of p returned in the run
ReturnedInRun(p) ==
    SumOver([k \in CallsMade(p) |-> Len(CallOutcome(p, CountriesOf(p)[k]).workflows)],
            CallsMade(p))

\* C13: a collection run appends exactly one run-log entry for each platform
\* it was asked to collect and none for the others, whether the collection
\* completed, the collector raised in the middle of the country loop or the
\* API key is missing; in POST /api/collect and in the scheduler.
C13_OneLogEntryPerPlatform ==
    run.by # "none" =>
        \A p \in Platforms :
            Cardinality(EntriesOf(p)) = IF p \in run.platforms THEN 1 ELSE 0

\* POST /api/collect for youtube and google over US and IN: the video
\* collector raises on the second country, the trend collection completes;
\* the log gained one YouTube error entry and one Google success entry
C13_Witness ==
    /\ run.by = "app" /\ run.key
    /\ run.platforms = {"youtube", "google"}
    /\ run.countries = <<"US", "IN">>
    /\ run.ext.youtube["US"].kind = "ok" /\ run.ext.youtube["IN"].kind = "raise"
    /\ ~ CollectorRaised("google")
    /\ Len(RunLog) = 2
    /\ RunLog[1].platform = "YouTube" /\ RunLog[1].status = "error"
    /\ RunLog[2].platform = "Google" /\ RunLog[2].status = "success"

\* C14: when the collection of a platform over a non-empty list of countries
\* completes without an exception, its run-log entry has status success and
\* a count equal to the number of records the collector returned, summed over
\* the countries; in POST /api/collect and in the scheduler.
C14_CountIsSumOverCountries ==
    run.by # "none" =>
        \A p \in run.platforms :
            ( /\ CountriesOf(p) # <<>>
              /\ ~ CollectorRaised(p)
              /\ ~ (run.by = "scheduler" /\ CredentialMissing(p)) )
            => /\ EntriesOf(p) # {}
               /\ EntryOf(p).status = "success"
               /\ EntryOf(p).workflows_collected = ReturnedInRun(p)

\* C15: in a run over several platforms, a platform whose collector raised
\* or whose credential is missing has a run-log entry with status error and
\* the error message, and every other requested platform has its own entry
\* of the same run.
C15_FailureIsolatedAndLogged ==
    (run.by # "none" /\ Cardinality(run.platforms) > 1) =>
        \A p \in run.platforms :
            (CollectorRaised(p) \/ CredentialMissing(p))
            => /\ EntriesOf(p) # {}
               /\ EntryOf(p).status = "error"
               /\ EntryOf(p).error_message # "None"
               /\ \A q \in run.platforms \ {p} : EntriesOf(q) # {}

\* C16: when an external call of a platform's collector failed in a run (no
\* API key for the video collector, or a request that raised or was answered
\* with an error status), the run-log entry of the platform has status
\* error, not success.  The forum collector makes no external call.
C16_ExternalFailureLoggedAsError ==
    run.by # "none" =>
        \A p \in run.platforms \ {"forum"} :
            ( \/ CredentialMissing(p)
              \/ \E k \in CallsMade(p) : CallOutcome(p, CountriesOf(p)[k]).kind = "failed" )
            => /\ EntriesOf(p) # {}
               /\ EntryOf(p).status = "error"

\* the platform value of the documents that the collector of p returns
StoredPlatform(p) ==
    CASE p = "youtube" -> "YouTube" [] p = "forum" -> "Forum" [] p = "google" -> "Google Trends"

\* the documents of platform p in a store; no other platform's collection
\* reads or writes them, the platform being part of the identity key
DocumentsOf(store, p) == SelectSeq(store, LAMBDA doc : doc["platform"] = StoredPlatform(p))

\* C21: when the collection of a platform ended with a run-log entry of
\* status error, the documents of that platform are what they were before
\* the run: nothing returned for an earlier country was inserted or updated.
C21_ErrorLeavesStoreUnchanged ==
    run.by # "none" =>
        \A p \in run.platforms :
            (EntriesOf(p) # {} /\ EntryOf(p).status = "error")
            => /\ EntryOf(p).workflows_collected = 0
               /\ DocumentsOf(workflows, p) = DocumentsOf(run.before, p)

\* an error entry in the response of POST /api/collect for platform p
ResponseErrors(p) ==
    { i \in DOMAIN run.response.collections :
        /\ run.response.collections[i].platform = RunLabel(p)
        /\ "error" \in DOMAIN run.response.collections[i] }

\* C22: for every countries list of POST /api/collect, the empty one
\* included, a requested youtube or google collection all of whose collector
\* calls succeeded has a run-log entry of status success (with count 0 for
\* the empty list) and no error entry in the response.
C22_AnyCountriesListSucceeds ==
    run.by = "app" =>
        \A p \in run.platforms \ {"forum"} :
            (\A k \in DOMAIN run.countries : CallOutcome(p, run.countries[k]).kind = "ok")
            => /\ EntriesOf(p) # {}
               /\ EntryOf(p).status = "success"
               /\ run.countries = <<>> => EntryOf(p).workflows_collected = 0
               /\ ResponseErrors(p) = {}

=============================================================================
